---- MODULE Spec2Model ----
(***************************************************************************)
(* Model of src/summary.py: the pipeline that recomputes the               *)
(* products_summary collection from the raw products collection.           *)
(*                                                                         *)
(* Values.  A document field holds a number, a string or nothing.  Every   *)
(* value is a record [t, n, d, s]: t is the tag ("num", "str", "nan"),     *)
(* n/d the number as a reduced fraction, s the string as a sequence of     *)
(* one-character strings.  "nan" is pandas' NaN, the value a DataFrame     *)
(* cell gets when the document lacks the field.  Absent marks, in a        *)
(* collection document, a field the document does not have.                *)
(***************************************************************************)
EXTENDS Integers, Sequences, FiniteSets, TLC

Num(k) == [t |-> "num", n |-> k, d |-> 1, s |-> <<>>]
Frac(a, b) == [t |-> "num", n |-> a, d |-> b, s |-> <<>>]
Str(cs) == [t |-> "str", n |-> 0, d |-> 1, s |-> cs]
NaN == [t |-> "nan", n |-> 0, d |-> 1, s |-> <<>>]
Absent == [t |-> "absent", n |-> 0, d |-> 1, s |-> <<>>]

IsNum(v) == v.t = "num"
IsStr(v) == v.t = "str"
isna(v) == v.t = "nan"

(***************************************************************************)
(* Characters, in ASCII order, for str.lower(), str.strip() and sorting.   *)
(***************************************************************************)
Chars == <<" ", "-", ".", "/",
           "0", "1", "2", "3", "4", "5", "6", "7", "8", "9",
           "A", "B", "C", "D", "E", "F", "G", "H", "I", "J", "K", "L", "M",
           "N", "O", "P", "Q", "R", "S", "T", "U", "V", "W", "X", "Y", "Z",
           "a", "b", "c", "d", "e", "f", "g", "h", "i", "j", "k", "l", "m",
           "n", "o", "p", "q", "r", "s", "t", "u", "v", "w", "x", "y", "z">>

CharCode(c) == CHOOSE i \in 1..Len(Chars) : Chars[i] = c
IsDigit(c) == CharCode(c) \in CharCode("0")..CharCode("9")
DigitVal(c) == CharCode(c) - CharCode("0")
IsSpace(c) == c = " "

LowerChar(c) ==
    IF CharCode(c) \in CharCode("A")..CharCode("Z")
    THEN Chars[CharCode(c) - CharCode("A") + CharCode("a")]
    ELSE c

lower(cs) == [i \in 1..Len(cs) |-> LowerChar(cs[i])]

RECURSIVE lstrip(_)
lstrip(cs) == IF cs # <<>> /\ IsSpace(Head(cs)) THEN lstrip(Tail(cs)) ELSE cs

RECURSIVE rstrip(_)
rstrip(cs) ==
    IF cs # <<>> /\ IsSpace(cs[Len(cs)])
    THEN rstrip(SubSeq(cs, 1, Len(cs) - 1))
    ELSE cs

strip(cs) == rstrip(lstrip(cs))

RECURSIVE Digits(_)
Digits(k) ==
    IF k < 10 THEN <<Chars[CharCode("0") + k]>>
    ELSE Digits(k \div 10) \o <<Chars[CharCode("0") + (k % 10)]>>

\* str(av) of a DataFrame cell: the string itself, "nan" for NaN, the
\* decimal digits for a whole number.
str(v) ==
    IF IsStr(v) THEN v.s
    ELSE IF isna(v) THEN <<"n", "a", "n">>
    ELSE Digits(v.n \div v.d)

Yes == <<"y", "e", "s">>
No == <<"n", "o">>

compute_availability_flag(av) ==
    IF lower(strip(str(av))) \in {Yes, No} THEN 1 ELSE 0

compute_available_flag(av) ==
    IF lower(strip(str(av))) = Yes THEN 1 ELSE 0

(***************************************************************************)
(* Fractions and pd.to_numeric(errors="coerce").                           *)
(***************************************************************************)
RECURSIVE GCD(_, _)
GCD(a, b) == IF b = 0 THEN a ELSE GCD(b, a % b)

Reduce(a, b) == IF a = 0 THEN Frac(0, 1) ELSE Frac(a \div GCD(a, b), b \div GCD(a, b))

RECURSIVE ParseInt(_, _)
ParseInt(cs, acc) ==
    IF cs = <<>> THEN acc ELSE ParseInt(Tail(cs), 10 * acc + DigitVal(Head(cs)))

RECURSIVE Pow10(_)
Pow10(k) == IF k = 0 THEN 1 ELSE 10 * Pow10(k - 1)

AllDigits(cs) == cs # <<>> /\ \A i \in 1..Len(cs) : IsDigit(cs[i])

\* The numeric literals parsed: digits, or digits "." digits.
ParseNumber(cs) ==
    IF AllDigits(cs) THEN Num(ParseInt(cs, 0))
    ELSE IF \E p \in 1..Len(cs) :
                /\ cs[p] = "."
                /\ AllDigits(SubSeq(cs, 1, p - 1))
                /\ AllDigits(SubSeq(cs, p + 1, Len(cs)))
         THEN LET p == CHOOSE q \in 1..Len(cs) : cs[q] = "."
                  whole == ParseInt(SubSeq(cs, 1, p - 1), 0)
                  frac == ParseInt(SubSeq(cs, p + 1, Len(cs)), 0)
                  scale == Pow10(Len(cs) - p)
              IN  Reduce(whole * scale + frac, scale)
         ELSE NaN

to_numeric(v) ==
    IF IsNum(v) THEN v
    ELSE IF IsStr(v) THEN ParseNumber(v.s)
    ELSE NaN

(***************************************************************************)
(* Documents.  A raw document has the fourteen projected fields; a summary *)
(* document has the nine key fields and the six metrics.                   *)
(***************************************************************************)
KeyFields == <<"City", "Company", "Client_Name", "Brand", "Name",
               "Unique_Product_ID", "Platform", "Category", "Report_Date">>
KeyFieldSet == {KeyFields[i] : i \in 1..Len(KeyFields)}
DedupFieldSet == KeyFieldSet \cup {"Pincode"}
RawFieldSet == DedupFieldSet \cup {"MRP", "Selling_Price", "Discount", "Availability"}

\* The filter built at lines 74-84: the nine key fields of a record.
Key(rec) == [f \in KeyFieldSet |-> rec[f]]

\* pd.DataFrame(list(cursor)): the columns are the fields some document has,
\* and a cell of a document that lacks the field is NaN.
DataFrame(docs) ==
    [columns |-> {f \in RawFieldSet : \E i \in 1..Len(docs) : docs[i][f] # Absent},
     rows |-> [i \in 1..Len(docs) |->
                 [f \in RawFieldSet |->
                     IF docs[i][f] = Absent THEN NaN ELSE docs[i][f]]]]

\* Lines 39-45: the two flags are added and the price columns coerced.
Normalize(row) ==
    [City |-> row.City, Company |-> row.Company, Client_Name |-> row.Client_Name,
     Brand |-> row.Brand, Name |-> row.Name,
     Unique_Product_ID |-> row.Unique_Product_ID, Platform |-> row.Platform,
     Category |-> row.Category, Report_Date |-> row.Report_Date,
     Pincode |-> row.Pincode, Availability |-> row.Availability,
     MRP |-> to_numeric(row.MRP),
     Selling_Price |-> to_numeric(row.Selling_Price),
     Discount |-> to_numeric(row.Discount),
     availabilityFlag |-> compute_availability_flag(row.Availability),
     availableFlag |-> compute_available_flag(row.Availability)]

\* DataFrame.drop_duplicates(subset): the first row of every combination of
\* the subset's values is kept; NaN equals NaN.
drop_duplicates(rows, subset) ==
    LET Proj(r) == [f \in subset |-> r[f]]
        Keep(i) == \A j \in 1..(i - 1) : Proj(rows[j]) # Proj(rows[i])
        F[i \in 0..Len(rows)] ==
            IF i = 0 THEN <<>>
            ELSE IF Keep(i) THEN Append(F[i - 1], rows[i]) ELSE F[i - 1]
    IN  F[Len(rows)]

(***************************************************************************)
(* groupby(...).agg(...).  Groups whose key holds a NaN are dropped        *)
(* (dropna=True, the default) and the groups come out sorted by key.       *)
(***************************************************************************)
RECURSIVE SeqLess(_, _)
SeqLess(a, b) ==
    IF b = <<>> THEN FALSE
    ELSE IF a = <<>> THEN TRUE
    ELSE IF Head(a) # Head(b) THEN CharCode(Head(a)) < CharCode(Head(b))
    ELSE SeqLess(Tail(a), Tail(b))

ValLess(a, b) ==
    IF IsNum(a) /\ IsNum(b) THEN a.n * b.d < b.n * a.d
    ELSE IF IsStr(a) /\ IsStr(b) THEN SeqLess(a.s, b.s)
    ELSE IsNum(a) /\ IsStr(b)

RECURSIVE KeyLessFrom(_, _, _)
KeyLessFrom(k1, k2, i) ==
    IF i > Len(KeyFields) THEN FALSE
    ELSE IF k1[KeyFields[i]] # k2[KeyFields[i]]
         THEN ValLess(k1[KeyFields[i]], k2[KeyFields[i]])
         ELSE KeyLessFrom(k1, k2, i + 1)

KeyLess(k1, k2) == KeyLessFrom(k1, k2, 1)

RECURSIVE SortKeys(_)
SortKeys(S) ==
    IF S = {} THEN <<>>
    ELSE LET m == CHOOSE k \in S : \A o \in S \ {k} : KeyLess(k, o)
         IN  <<m>> \o SortKeys(S \ {m})

HasNaNKey(r) == \E f \in KeyFieldSet : isna(r[f])

GroupKeys(rows) ==
    SortKeys({Key(rows[i]) : i \in {j \in 1..Len(rows) : ~HasNaNKey(rows[j])}})

\* "count": the number of non-NaN cells.
count(cells) == Cardinality({i \in 1..Len(cells) : ~isna(cells[i])})

\* "sum" of a flag column.
RECURSIVE sum(_)
sum(flags) == IF flags = <<>> THEN 0 ELSE Head(flags) + sum(Tail(flags))

RECURSIVE FracSum(_)
FracSum(cells) ==
    IF cells = <<>> THEN Frac(0, 1)
    ELSE LET h == Head(cells)
             r == FracSum(Tail(cells))
         IN  IF isna(h) THEN r ELSE Reduce(h.n * r.d + r.n * h.d, h.d * r.d)

\* "mean": the mean of the non-NaN cells, NaN when there is none.
mean(cells) ==
    IF count(cells) = 0 THEN NaN
    ELSE Reduce(FracSum(cells).n, FracSum(cells).d * count(cells))

Column(rows, f) == [i \in 1..Len(rows) |-> rows[i][f]]

agg(k, rows) ==
    LET g == SelectSeq(rows, LAMBDA r : Key(r) = k)
    IN  [City |-> k.City, Company |-> k.Company, Client_Name |-> k.Client_Name,
         Brand |-> k.Brand, Name |-> k.Name,
         Unique_Product_ID |-> k.Unique_Product_ID, Platform |-> k.Platform,
         Category |-> k.Category, Report_Date |-> k.Report_Date,
         totalCount |-> count(Column(g, "Pincode")),
         listedCount |-> sum(Column(g, "availabilityFlag")),
         availableCount |-> sum(Column(g, "availableFlag")),
         MRP |-> mean(Column(g, "MRP")),
         Selling_Price |-> mean(Column(g, "Selling_Price")),
         Discount |-> mean(Column(g, "Discount"))]

groupby_agg(rows) ==
    LET keys == GroupKeys(rows)
    IN  [i \in 1..Len(keys) |-> agg(keys[i], rows)]

\* Lines 39-63 on the rows of the DataFrame.
Aggregate(rows) ==
    LET normalized == [i \in 1..Len(rows) |-> Normalize(rows[i])]
        unique_pincode == drop_duplicates(normalized, DedupFieldSet)
    IN  groupby_agg(unique_pincode)

(***************************************************************************)
(* The summary collection and the upserts.                                 *)
(***************************************************************************)
BatchSize == 500

\* A filter that leaves the product id out.
Matches_NoProductId(doc, filter) ==
    \A f \in DOMAIN filter \ {"Unique_Product_ID"} : f \in DOMAIN doc /\ doc[f] = filter[f]

\* The filter of an UpdateOne: equality on each of the nine key fields.
Matches(doc, filter) ==
    \A f \in DOMAIN filter : f \in DOMAIN doc /\ doc[f] = filter[f]

\* An update that adds the new totalCount to the stored one.
Set_Accumulate(doc, record) ==
    [f \in DOMAIN doc \cup DOMAIN record |->
        IF f \notin DOMAIN record THEN doc[f]
        ELSE IF f = "totalCount" /\ f \in DOMAIN doc THEN doc[f] + record[f]
        ELSE record[f]]

\* {"$set": record}: the record's fields are written, the others kept.
Set(doc, record) ==
    [f \in DOMAIN doc \cup DOMAIN record |->
        IF f \in DOMAIN record THEN record[f] ELSE doc[f]]

\* An insert in place of the upsert.
UpdateOne_Insert(coll, record) == Append(coll, record)

\* UpdateOne(key, {"$set": record}, upsert=True) on the collection: the
\* first matching document is updated; without a match the document made
\* of the filter's fields and the $set fields is inserted.
UpdateOne(coll, record) ==
    LET key == Key(record)
        hits == {i \in 1..Len(coll) : Matches(coll[i], key)}
    IN  IF hits # {}
        THEN LET first == CHOOSE i \in hits : \A j \in hits : i <= j
             IN  [coll EXCEPT ![first] = Set(coll[first], record)]
        ELSE Append(coll, Set(key, record))

\* The operations batch[from..upto] applied in order, one after the other.
\* The range is halved, and the first half's result is looked at before the
\* second half starts, so that the evaluation does not nest one level for
\* each operation; an upsert never shortens the collection.
RECURSIVE ApplyRange(_, _, _, _)
ApplyRange(coll, batch, from, upto) ==
    IF from > upto THEN coll
    ELSE IF from = upto THEN UpdateOne(coll, batch[from])
    ELSE LET mid == (from + upto) \div 2
             left == ApplyRange(coll, batch, from, mid)
         IN  IF Len(left) >= Len(coll)
             THEN ApplyRange(left, batch, mid + 1, upto)
             ELSE coll

ApplyOps(coll, batch, upto) == ApplyRange(coll, batch, 1, upto)

\* The operations of a batch at which an (ordered) bulk write is taken to
\* fail: any of the first or of the last MaxFailAt operations.
MaxFailAt == 1
FailPoints(batch) ==
    {j \in 1..Len(batch) : j <= MaxFailAt \/ j > Len(batch) - MaxFailAt}

\* db[SUMMARY_COLLECTION].bulk_write(ops), ordered: either every operation
\* is applied, or the call raises at an operation and the operations before
\* it stay applied.
bulk_write(coll, batch) ==
    {[ok |-> TRUE, coll |-> ApplyOps(coll, batch, Len(batch))]}
    \cup {[ok |-> FALSE, coll |-> ApplyOps(coll, batch, j - 1)] : j \in FailPoints(batch)}

HasDuplicateKeys(coll) ==
    \E i, j \in 1..Len(coll) : i < j /\ Key(coll[i]) = Key(coll[j])

(***************************************************************************)
(* The input domain: the raw documents the ingestion may add and the       *)
(* summary collections a run may find.                                     *)
(***************************************************************************)
Pune == Str(<<"P", "u", "n", "e">>)
Acme == Str(<<"A", "c", "m", "e">>)
Tea == Str(<<"T", "e", "a">>)
Web == Str(<<"W", "e", "b">>)
Day == Str(<<"2", "0", "2", "4", "-", "0", "1", "-", "0", "1">>)
Pin(k) == Str(<<"4", "0", "0", "0", "0">> \o Digits(k))

RawDoc(city, id, pincode, availability, mrp, price, discount) ==
    [City |-> city, Company |-> Acme, Client_Name |-> Acme, Brand |-> Tea,
     Name |-> Tea, Unique_Product_ID |-> id, Platform |-> Web,
     Category |-> Tea, Report_Date |-> Day,
     Pincode |-> pincode, Availability |-> availability,
     MRP |-> mrp, Selling_Price |-> price, Discount |-> discount]

RawDocs ==
    {RawDoc(Pune, Num(101), Pin(1), Str(<<"Y", "e", "s">>), Num(100), Num(90), Num(10)),
     RawDoc(Pune, Num(101), Pin(2), Str(<<" ", "N", "O", " ">>),
            Str(<<"2", "0", "0">>), Str(<<"a", "b", "c">>), Str(<<"1", "2", ".", "5">>)),
     RawDoc(Pune, Num(101), Pin(1), Str(<<"N", "/", "A">>), Num(300), Absent, Str(<<>>)),
     RawDoc(Pune, Num(101), Absent, Str(<<"y", "e", "s">>), Absent, Num(80), Num(10)),
     RawDoc(Absent, Num(102), Pin(1), Str(<<"Y", "e", "s">>), Num(100), Num(90), Num(10)),
     RawDoc(Pune, Num(102), Pin(1), Absent, Num(100), Num(90), Absent)}

SummaryDoc(id, total, listed, available, mrp) ==
    [City |-> Pune, Company |-> Acme, Client_Name |-> Acme, Brand |-> Tea,
     Name |-> Tea, Unique_Product_ID |-> id, Platform |-> Web,
     Category |-> Tea, Report_Date |-> Day,
     totalCount |-> total, listedCount |-> listed, availableCount |-> available,
     MRP |-> mrp, Selling_Price |-> NaN, Discount |-> NaN]

\* Documents of earlier runs: one of a product the raw data still has, one
\* of a product it no longer has.
OldDocs == {SummaryDoc(Num(101), 7, 5, 3, Num(50)), SummaryDoc(Num(103), 1, 1, 0, NaN)}

MaxRows == 2
MaxOldDocs == 2

Range(f) == {f[i] : i \in DOMAIN f}

SeqsUpTo(S, n) == UNION {[1..k -> S] : k \in 0..n}

NoRun == [ok |-> FALSE, products |-> <<>>, summary |-> <<>>]
NoFrame == [columns |-> {}, rows |-> <<>>]

VARIABLES
    products,          \* db[RAW_COLLECTION]: the raw documents, in natural order
    products_summary,  \* db[SUMMARY_COLLECTION]: the documents, in natural order
    index,             \* the index on the nine key fields: none, unique, nonunique
    pc,                \* where the run is
    raw,               \* the DataFrame of line 24
    df_summary,        \* the aggregated records
    done,              \* how many records the loop of line 72 has processed
    ops,               \* the buffer of pending upserts
    bulk_writes,       \* the batches this run's bulk writes committed
    stdout,            \* the lines this run printed
    at_start,          \* the summary collection and index when the run started
    last_run           \* how the previous run ended, while the raw data is unchanged

vars == <<products, products_summary, index, pc, raw, df_summary, done, ops,
          bulk_writes, stdout, at_start, last_run>>

Ended == {"done", "returned", "KeyError", "BulkWriteError", "OperationFailure"}

InitRun ==
    /\ pc = "idle"
    /\ raw = NoFrame
    /\ df_summary = <<>>
    /\ done = 0
    /\ ops = <<>>
    /\ bulk_writes = <<>>
    /\ stdout = <<>>
    /\ last_run = NoRun

Init ==
    /\ products = <<>>
    /\ products_summary \in SeqsUpTo(OldDocs, MaxOldDocs)
    /\ index \in {"none", "unique", "nonunique"}
    /\ index = "unique" => ~HasDuplicateKeys(products_summary)
    /\ at_start = [summary |-> products_summary, index |-> index]
    /\ InitRun

\* The ingestion process, outside the pipeline, adds a raw document.
Ingest ==
    /\ pc = "idle"
    /\ Len(products) < MaxRows
    /\ \E doc \in RawDocs : products' = Append(products, doc)
    /\ last_run' = NoRun
    /\ UNCHANGED <<products_summary, index, pc, raw, df_summary, done, ops,
                   bulk_writes, stdout, at_start>>

\* A run that goes on with an empty DataFrame.
Extract_NoReturn ==
    /\ pc = "idle"
    /\ raw' = DataFrame(products)
    /\ at_start' = [summary |-> products_summary, index |-> index]
    /\ pc' = "loaded"
    /\ UNCHANGED <<products, products_summary, index, df_summary, done, ops,
                   bulk_writes, stdout, last_run>>

\* Lines 14-27: the raw documents are read into the DataFrame; an empty
\* DataFrame ends the run.
Extract ==
    /\ pc = "idle"
    /\ raw' = DataFrame(products)
    /\ at_start' = [summary |-> products_summary, index |-> index]
    /\ IF products = <<>>
       THEN /\ stdout' = Append(stdout, [line |-> "No raw data found", n |-> 0])
            /\ pc' = "returned"
       ELSE /\ pc' = "loaded"
            /\ UNCHANGED stdout
    /\ UNCHANGED <<products, products_summary, index, df_summary, done, ops,
                   bulk_writes, last_run>>

\* Lines 29-71: flags, coercion, de-duplication and aggregation.  Selecting
\* a column no document has raises KeyError.
Transform ==
    /\ pc = "loaded"
    /\ IF RawFieldSet \subseteq raw.columns
       THEN /\ df_summary' = Aggregate(raw.rows)
            /\ pc' = "upsert"
       ELSE /\ pc' = "KeyError"
            /\ UNCHANGED df_summary
    /\ UNCHANGED <<products, products_summary, index, raw, done, ops,
                   bulk_writes, stdout, at_start, last_run>>

\* A loop that writes the buffer only once it holds more than BatchSize.
LoopStep_Late ==
    /\ pc = "upsert"
    /\ done < Len(df_summary)
    /\ LET buffer == Append(ops, df_summary[done + 1])
       IN  IF Len(buffer) > BatchSize
           THEN \E out \in bulk_write(products_summary, buffer) :
                    /\ products_summary' = out.coll
                    /\ IF out.ok
                       THEN /\ bulk_writes' = Append(bulk_writes, buffer)
                            /\ ops' = <<>>
                            /\ done' = done + 1
                            /\ pc' = "upsert"
                       ELSE /\ pc' = "BulkWriteError"
                            /\ ops' = buffer
                            /\ UNCHANGED <<bulk_writes, done>>
           ELSE /\ ops' = buffer
                /\ done' = done + 1
                /\ UNCHANGED <<products_summary, bulk_writes, pc>>
    /\ UNCHANGED <<products, index, raw, df_summary, stdout, at_start, last_run>>

\* Lines 72-96: one iteration of the loop.  The record's upsert is appended
\* and a buffer of BatchSize is written and cleared.
LoopStep ==
    /\ pc = "upsert"
    /\ done < Len(df_summary)
    /\ LET buffer == Append(ops, df_summary[done + 1])
       IN  IF Len(buffer) >= BatchSize
           THEN \E out \in bulk_write(products_summary, buffer) :
                    /\ products_summary' = out.coll
                    /\ IF out.ok
                       THEN /\ bulk_writes' = Append(bulk_writes, buffer)
                            /\ ops' = <<>>
                            /\ done' = done + 1
                            /\ pc' = "upsert"
                       ELSE /\ pc' = "BulkWriteError"
                            /\ ops' = buffer
                            /\ UNCHANGED <<bulk_writes, done>>
           ELSE /\ ops' = buffer
                /\ done' = done + 1
                /\ UNCHANGED <<products_summary, bulk_writes, pc>>
    /\ UNCHANGED <<products, index, raw, df_summary, stdout, at_start, last_run>>

\* A final flush whose failure undoes the run's earlier bulk writes.
FinalFlush_Rollback ==
    /\ pc = "upsert"
    /\ done = Len(df_summary)
    /\ IF ops # <<>>
       THEN \E out \in bulk_write(products_summary, ops) :
                IF out.ok
                THEN /\ products_summary' = out.coll
                     /\ bulk_writes' = Append(bulk_writes, ops)
                     /\ ops' = <<>>
                     /\ pc' = "index"
                ELSE /\ products_summary' = at_start.summary
                     /\ pc' = "BulkWriteError"
                     /\ UNCHANGED <<bulk_writes, ops>>
       ELSE /\ pc' = "index"
            /\ UNCHANGED <<products_summary, bulk_writes, ops>>
    /\ UNCHANGED <<products, index, raw, df_summary, done, stdout, at_start, last_run>>

\* Lines 97-99: the final flush of a non-empty buffer.
FinalFlush ==
    /\ pc = "upsert"
    /\ done = Len(df_summary)
    /\ IF ops # <<>>
       THEN \E out \in bulk_write(products_summary, ops) :
                /\ products_summary' = out.coll
                /\ IF out.ok
                   THEN /\ bulk_writes' = Append(bulk_writes, ops)
                        /\ ops' = <<>>
                        /\ pc' = "index"
                   ELSE /\ pc' = "BulkWriteError"
                        /\ UNCHANGED <<bulk_writes, ops>>
       ELSE /\ pc' = "index"
            /\ UNCHANGED <<products_summary, bulk_writes, ops>>
    /\ UNCHANGED <<products, index, raw, df_summary, done, stdout, at_start, last_run>>

\* Lines 101-107: the unique index is created and the summary line printed.
\* create_index raises when the documents hold a duplicate key or when a
\* non-unique index on the same fields exists; an existing unique index is
\* left as it is.
create_index ==
    /\ pc = "index"
    /\ IF index = "nonunique" \/ (index = "none" /\ HasDuplicateKeys(products_summary))
       THEN /\ pc' = "OperationFailure"
            /\ UNCHANGED <<index, stdout>>
       ELSE /\ index' = "unique"
            /\ stdout' = Append(stdout, [line |-> "Upserted", n |-> Len(df_summary)])
            /\ pc' = "done"
    /\ UNCHANGED <<products, products_summary, raw, df_summary, done, ops,
                   bulk_writes, at_start, last_run>>

\* The process exits; the next run starts from scratch.  last_run.ok says
\* that no bulk write of the run was cut short and no KeyError raised.
Exit ==
    /\ pc \in Ended
    /\ pc' = "idle"
    /\ raw' = NoFrame
    /\ df_summary' = <<>>
    /\ done' = 0
    /\ ops' = <<>>
    /\ bulk_writes' = <<>>
    /\ stdout' = <<>>
    /\ last_run' = [ok |-> pc \in {"done", "returned", "OperationFailure"}, products |-> products,
                    summary |-> products_summary]
    /\ UNCHANGED <<products, products_summary, index, at_start>>

Next == Ingest \/ Extract \/ Transform \/ LoopStep \/ FinalFlush \/ create_index \/ Exit

Spec == Init /\ [][Next]_vars

(***************************************************************************)
(* Large inputs: one raw document for each of n products, with n around    *)
(* the multiples of BatchSize, and a single run over them.                 *)
(***************************************************************************)
MaxFullBatches == 1
MaxRemainder == 1

BatchCases ==
    {q * BatchSize + r : q \in 0..MaxFullBatches, r \in (-1)..MaxRemainder} \ ((-1)..0)

BulkDoc(i) ==
    RawDoc(Pune, Num(i), Pin(1), Str(<<"Y", "e", "s">>), Num(100), Num(90), Num(10))

BulkRaw(n) == [i \in 1..n |-> BulkDoc(i)]

\* The DataFrame's rows of those documents aggregate to one record for each
\* product, in the order of the product ids.
BulkSummary(n) ==
    [i \in 1..n |->
        LET row == Normalize(DataFrame(<<BulkDoc(i)>>).rows[1])
        IN  agg(Key(row), <<row>>)]

\* The run is at line 71: the aggregation is done, the loop is to start.
InitBatch ==
    /\ \E n \in BatchCases :
           /\ products = BulkRaw(n)
           /\ raw = DataFrame(products)
           /\ df_summary = BulkSummary(n)
    /\ products_summary = <<SummaryDoc(Num(1), 7, 5, 3, Num(50))>>
    /\ index = "none"
    /\ at_start = [summary |-> products_summary, index |-> index]
    /\ pc = "upsert"
    /\ done = 0
    /\ ops = <<>>
    /\ bulk_writes = <<>>
    /\ stdout = <<>>
    /\ last_run = NoRun

NextBatch == LoopStep \/ FinalFlush \/ create_index

SpecBatch == InitBatch /\ [][NextBatch]_vars

\* The runs that start from a summary collection without duplicate keys.
InitUnique == Init /\ ~HasDuplicateKeys(products_summary)

SpecUnique == InitUnique /\ [][Next]_vars

(***************************************************************************)
(* Properties.                                                             *)
(***************************************************************************)
Wrote == bulk_writes # <<>> /\ products_summary # at_start.summary

\* C1: starting from a summary collection without duplicate keys, no
\* reachable summary collection, whatever runs completed or aborted, holds
\* two documents with the same nine-field key.
C1_UniqueKeys == ~HasDuplicateKeys(products_summary)

C1_Witness ==
    /\ pc = "done"
    /\ ~last_run.ok
    /\ last_run.products = products
    /\ Wrote
    /\ Len(products_summary) = 3

\* C2: a run through all its writes that follows such a run over the same
\* raw documents leaves the summary collection as the first run left it.
C2_Idempotent ==
    (pc \in {"done", "returned", "OperationFailure"} /\ last_run.ok /\ last_run.products = products)
        => products_summary = last_run.summary

C2_Witness ==
    /\ pc = "done"
    /\ last_run.ok
    /\ last_run.products = products
    /\ Len(bulk_writes[1]) >= 2
    /\ products_summary # <<>>

RawKeys == {Key(raw.rows[i]) : i \in 1..Len(raw.rows)}

Metrics == {"totalCount", "listedCount", "availableCount", "MRP", "Selling_Price", "Discount"}

\* C3: after a complete run every group key of the raw data has exactly
\* one summary document, whose metrics are those aggregated from the raw
\* data of this run.
C3_Overwrite ==
    pc = "done" =>
        \A k \in RawKeys :
            /\ Cardinality({i \in 1..Len(products_summary) : Key(products_summary[i]) = k}) = 1
            /\ \E i \in 1..Len(products_summary), j \in 1..Len(df_summary) :
                   /\ Key(products_summary[i]) = k
                   /\ Key(df_summary[j]) = k
                   /\ \A m \in Metrics : products_summary[i][m] = df_summary[j][m]

\* C4: no step deletes a summary document, and a document whose key is
\* not a key of the raw data keeps all its fields.
C4_StaleKept ==
    [][/\ Len(products_summary') >= Len(products_summary)
       /\ \A i \in 1..Len(products_summary) :
              /\ Key(products_summary'[i]) = Key(products_summary[i])
              /\ Key(products_summary[i]) \notin {Key(r) : r \in Range(DataFrame(products).rows)}
                     => products_summary'[i] = products_summary[i]]_vars

C4_Witness ==
    /\ pc = "done"
    /\ Wrote
    /\ \E i \in 1..Len(products_summary) :
           /\ products_summary[i] = SummaryDoc(Num(103), 1, 1, 0, NaN)
           /\ Key(products_summary[i]) \notin RawKeys

\* C5: a run over an empty raw collection ends at the return of line 27
\* with the diagnostic printed, no bulk write, and the summary collection
\* and its index as they were.
C5_EmptyShortCircuit ==
    (products = <<>> /\ pc # "idle") =>
        /\ pc = "returned"
        /\ stdout = <<[line |-> "No raw data found", n |-> 0]>>
        /\ bulk_writes = <<>>
        /\ products_summary = at_start.summary
        /\ index = at_start.index

C5_Witness ==
    /\ pc = "returned"
    /\ products_summary # <<>>
    /\ index = "none"

Deduplicated ==
    drop_duplicates([i \in 1..Len(raw.rows) |-> Normalize(raw.rows[i])], DedupFieldSet)

\* C6: every key of the de-duplicated rows, a key with a missing field
\* included, has exactly one aggregated record, whose totalCount is the
\* number of de-duplicated rows of the key.
C6_GroupingComplete ==
    pc = "upsert" =>
        \A k \in {Key(r) : r \in Range(Deduplicated)} :
            /\ Cardinality({j \in 1..Len(df_summary) : Key(df_summary[j]) = k}) = 1
            /\ \A j \in 1..Len(df_summary) :
                   Key(df_summary[j]) = k =>
                       df_summary[j].totalCount =
                           Cardinality({i \in 1..Len(Deduplicated) : Key(Deduplicated[i]) = k})

\* C7: every aggregated record has 0 <= availableCount <= listedCount <=
\* totalCount.
C7_CountOrdering ==
    \A j \in 1..Len(df_summary) :
        /\ 0 <= df_summary[j].availableCount
        /\ df_summary[j].availableCount <= df_summary[j].listedCount
        /\ df_summary[j].listedCount <= df_summary[j].totalCount

\* C8: the stages before the upsert never raise, whatever fields the raw
\* documents lack.
C8_NoRaise == pc # "KeyError"

Committed(record) ==
    \E i \in 1..Len(products_summary) : Set(products_summary[i], record) = products_summary[i]

RECURSIVE Flatten(_)
Flatten(batches) ==
    IF batches = <<>> THEN <<>> ELSE Head(batches) \o Flatten(Tail(batches))

Written == Len(Flatten(bulk_writes))

\* C9: when a bulk write raises, the records of the batches written before
\* it are in the summary collection, the records after the failing batch
\* have changed nothing, the index is as it was and nothing is printed.
C9_NoRollback ==
    pc = "BulkWriteError" =>
        /\ \A b \in 1..Len(bulk_writes) :
               \A j \in 1..Len(bulk_writes[b]) : Committed(bulk_writes[b][j])
        /\ \A j \in (Written + Len(ops) + 1)..Len(df_summary) :
               \A i \in 1..Len(products_summary) :
                   Matches(products_summary[i], Key(df_summary[j])) =>
                       /\ i <= Len(at_start.summary)
                       /\ products_summary[i] = at_start.summary[i]
        /\ index = at_start.index
        /\ stdout = <<>>

C9_Witness ==
    /\ pc = "BulkWriteError"
    /\ Len(bulk_writes) >= 1
    /\ Len(ops) >= 1
    /\ products_summary # at_start.summary

\* C10: once the loop and the final flush are through, the bulk writes
\* hold every record exactly once and in order, each holds between 1 and
\* BatchSize operations, and the summary collection is the one that one
\* upsert for each record gives.
C10_BatchingPreserves ==
    pc \in {"index", "done", "OperationFailure"} =>
        /\ Flatten(bulk_writes) = df_summary
        /\ \A b \in 1..Len(bulk_writes) :
               Len(bulk_writes[b]) >= 1 /\ Len(bulk_writes[b]) <= BatchSize
        /\ products_summary = ApplyOps(at_start.summary, df_summary, Len(df_summary))

C10_Witness ==
    /\ pc = "done"
    /\ Len(bulk_writes) = 2
    /\ Len(bulk_writes[1]) = BatchSize
    /\ Len(bulk_writes[2]) = 1

====
